---- MODULE Spec2Model ----
(***************************************************************************)
(* Portfolio statistics, random-portfolio sampling and constrained solves  *)
(* of project-sharpe (main.py, sortino.py).                                *)
(*                                                                         *)
(* Numbers are IEEE-like values in fixed point: a finite value v stands    *)
(* for v / Scale, and NaN, +inf, -inf are kept apart, with numpy's rules   *)
(* for division by zero and the square root of a negative number.         *)
(***************************************************************************)
EXTENDS Integers, Sequences, FiniteSets, TLC

(* ------------------------------ bounds -------------------------------- *)
\* grid weights, mean returns and per-period returns are multiples of 1/Grid
Grid == 2
\* rows of the per-period return matrix
MaxPeriods == 2
\* np.random.random draws a multiple of 1/Levels in [0, 1)
Levels == 2
\* largest n_portfolios
MaxPortfolios == 2
\* longest target_returns sequence
MaxTargets == 2
\* most aligned price rows the provider returns
MaxRows == 3
\* most "Create new graph?" prompts answered in one execution
MaxPrompts == 2

\* fixed-point units per 1.0: fine enough that the square of the smallest
\* deviation of a per-period return from the mean does not round to 0
Scale == (Grid * Grid * 6) * (Grid * Grid * 6)

\* instruments (a subset of the default tickers of main.py / sortino.py)
Instruments == {"AAPL", "MSFT"}
\* annualised mean returns, in units of 1/Grid
MeanVals == {0, 1}
\* covariance entries, whole numbers (also negative: a non-PSD matrix)
CovVals == {-1, 0, 1}
\* per-period returns, in units of 1/Grid
RetVals == {-2, -1, 1}
\* risk-free rates, in units of 1/Grid
RiskFreeVals == {0, 1}
\* frontier target returns, in units of 1/Grid^2
TargetVals == {-1, 1, 2}

(* --------------------------- float values ----------------------------- *)
Num(v) == [t |-> "num", v |-> v]
NaN == [t |-> "nan", v |-> 0]
PInf == [t |-> "inf", v |-> 1]
NInf == [t |-> "inf", v |-> -1]

IsNaN(x) == x.t = "nan"
IsInf(x) == x.t = "inf"
IsNum(x) == x.t = "num"
Sign(v) == IF v > 0 THEN 1 ELSE IF v < 0 THEN -1 ELSE 0
InfOf(s) == IF s > 0 THEN PInf ELSE NInf

\* x > y as floats: any comparison with NaN is False
FGt(x, y) ==
    IF IsNaN(x) \/ IsNaN(y) THEN FALSE
    ELSE IF IsInf(x) THEN x.v > 0 /\ ~(IsInf(y) /\ y.v > 0)
    ELSE IF IsInf(y) THEN y.v < 0
    ELSE x.v > y.v

FLt(x, y) == FGt(y, x)

FNeg(x) == IF IsNaN(x) THEN NaN ELSE [t |-> x.t, v |-> -x.v]

FAdd(x, y) ==
    IF IsNaN(x) \/ IsNaN(y) THEN NaN
    ELSE IF IsInf(x) /\ IsInf(y) THEN (IF x.v = y.v THEN x ELSE NaN)
    ELSE IF IsInf(x) THEN x
    ELSE IF IsInf(y) THEN y
    ELSE Num(x.v + y.v)

FSub(x, y) == FAdd(x, FNeg(y))

FMul(x, y) ==
    IF IsNaN(x) \/ IsNaN(y) THEN NaN
    ELSE IF IsInf(x) \/ IsInf(y)
         THEN (IF Sign(x.v) * Sign(y.v) = 0 THEN NaN ELSE InfOf(Sign(x.v) * Sign(y.v)))
    ELSE Num((x.v * y.v) \div Scale)

\* numpy float division: x/0 is +-inf, 0/0 is NaN, and no exception is raised
FDiv(x, y) ==
    IF IsNaN(x) \/ IsNaN(y) THEN NaN
    ELSE IF IsInf(x) THEN (IF IsInf(y) THEN NaN
                           ELSE InfOf(x.v * (IF y.v < 0 THEN -1 ELSE 1)))
    ELSE IF IsInf(y) THEN Num(0)
    ELSE IF y.v = 0 THEN (IF x.v = 0 THEN NaN ELSE InfOf(x.v))
    ELSE Num((x.v * Scale) \div y.v)

RECURSIVE SqrtSearch(_, _, _)
SqrtSearch(n, lo, hi) ==
    IF lo >= hi THEN lo
    ELSE LET mid == (lo + hi + 1) \div 2
         IN  IF mid * mid <= n THEN SqrtSearch(n, mid, hi)
             ELSE SqrtSearch(n, lo, mid - 1)

\* floor of the square root of n >= 0 (46340^2 is the largest square TLC's integers hold)
ISqrt(n) == SqrtSearch(n, 0, IF n < 46340 THEN n ELSE 46340)

\* numpy sqrt: NaN for a negative argument
FSqrt(x) ==
    IF IsNaN(x) THEN NaN
    ELSE IF IsInf(x) THEN (IF x.v > 0 THEN PInf ELSE NaN)
    ELSE IF x.v < 0 THEN NaN
    ELSE Num(ISqrt(x.v * Scale))

RECURSIVE FSum(_, _)
\* sum of f[i] over i in S
FSum(f, S) ==
    IF S = {} THEN Num(0)
    ELSE LET i == CHOOSE j \in S : TRUE
         IN  FAdd(f[i], FSum(f, S \ {i}))

\* np.dot(a, b)
Dot(a, b) == FSum([i \in DOMAIN a |-> FMul(a[i], b[i])], DOMAIN a)

\* weights.T @ cov_matrix @ weights
QuadForm(w, cov) ==
    LET row == [j \in DOMAIN w |-> Dot(w, [i \in DOMAIN w |-> cov[i][j]])]
    IN  Dot(row, w)

(* --------------------------- input domains ---------------------------- *)
\* k/Grid as a float
Frac(k) == Num(k * (Scale \div Grid))

RECURSIVE SumInt(_, _)
SumInt(f, S) ==
    IF S = {} THEN 0
    ELSE LET i == CHOOSE j \in S : TRUE
         IN  f[i] + SumInt(f, S \ {i})

\* the weight vectors on the simplex whose components are multiples of 1/Grid
SimplexGrid(T) ==
    { [i \in T |-> Frac(k[i])] : k \in { g \in [T -> 0..Grid] : SumInt(g, T) = Grid } }

MeanVectors(T) == [T -> { Frac(j) : j \in MeanVals }]

CovMatrices(T) ==
    { m \in [T -> [T -> { Num(c * Scale) : c \in CovVals }]] :
        \A i, j \in T : m[i][j] = m[j][i] }

\* the positive-semidefinite ones (for at most two instruments)
PsdCovMatrices(T) ==
    { m \in CovMatrices(T) :
        \A i, j \in T : m[i][i].v >= 0 /\ m[i][j].v * m[i][j].v <= m[i][i].v * m[j][j].v }

\* c times the identity matrix, for c in CovVals
ScalarCovMatrices(T) ==
    { [i \in T |-> [j \in T |-> IF i = j THEN Num(c * Scale) ELSE Num(0)]] : c \in CovVals }

ReturnMatrices(T) ==
    UNION { [1..n -> [T -> { Frac(a) : a \in RetVals }]] : n \in 0..MaxPeriods }

RiskFreeRates == { Frac(f) : f \in RiskFreeVals }

(* ----------------------- portfolio statistics ------------------------- *)
\* trading periods per year
TradingDays == 252

\* main.py compute_portfolio_stats: (port_return, port_vol, sharpe)
compute_portfolio_stats(w, mean, cov, rf) ==
    LET port_return == Dot(w, mean)
        port_vol == FSqrt(QuadForm(w, cov))
        sharpe == FDiv(FSub(port_return, rf), port_vol)
    IN  <<port_return, port_vol, sharpe>>

\* np.std(xs[S]): population standard deviation, NaN for an empty selection
np_std(xs, S) ==
    IF S = {} THEN NaN
    ELSE LET n == Num(Cardinality(S) * Scale)
             mu == FDiv(FSum(xs, S), n)
             sq == [t \in S |-> FMul(FSub(xs[t], mu), FSub(xs[t], mu))]
         IN  FSqrt(FDiv(FSum(sq, S), n))

\* returns @ weights
portfolio_returns(rets, w) == [t \in DOMAIN rets |-> Dot(rets[t], w)]

\* the periods kept by portfolio_returns[portfolio_returns < 0]
downside_returns(rets, w) ==
    { t \in DOMAIN rets : FLt(portfolio_returns(rets, w)[t], Num(0)) }

downside_std(rets, w) ==
    FMul(np_std(portfolio_returns(rets, w), downside_returns(rets, w)),
         FSqrt(Num(TradingDays * Scale)))

\* the same with the guard written as downside_std != 0 (True for NaN)
sortino_stats_guard_ne(w, mean, cov, rets, rf) ==
    LET portfolio_return == Dot(w, mean)
        portfolio_vol == FSqrt(QuadForm(w, cov))
        sortino == IF downside_std(rets, w) # Num(0)
                   THEN FDiv(FSub(portfolio_return, rf), downside_std(rets, w))
                   ELSE Num(0)
    IN  <<portfolio_return, portfolio_vol, sortino>>

\* sortino.py compute_portfolio_stats: (portfolio_return, portfolio_vol, sortino)
sortino_compute_portfolio_stats(w, mean, cov, rets, rf) ==
    LET portfolio_return == Dot(w, mean)
        portfolio_vol == FSqrt(QuadForm(w, cov))
        sortino == IF FGt(downside_std(rets, w), Num(0))
                   THEN FDiv(FSub(portfolio_return, rf), downside_std(rets, w))
                   ELSE Num(0)
    IN  <<portfolio_return, portfolio_vol, sortino>>

(* ------------------------------ state --------------------------------- *)
VARIABLES
    pc,              \* position of the running operation
    tickers,         \* the instruments of this run
    weights,         \* argument of compute_portfolio_stats
    mean_returns,    \* annualised mean return per instrument
    cov_matrix,      \* annualised covariance matrix
    returns,         \* per-period return matrix (sequence of rows)
    risk_free_rate,
    stats,           \* value returned by compute_portfolio_stats
    risk_model,      \* "sharpe" (main.py) or "sortino" (sortino.py)
    n_portfolios,    \* argument of simulate_random_portfolios
    it,              \* iterations of its loop done so far
    results,         \* its list of [port_vol, port_return, ratio]
    weight_records,  \* its list of weight vectors
    draws,           \* the values np.random.random returned, in order
    df,              \* the table it returns
    target_returns,  \* argument of efficient_frontier
    taken,           \* targets its loop has taken so far
    r,               \* its loop variable, read by the return constraint
    frontier_vols,   \* its output list
    result,          \* the OptimizeResult of the latest minimize call
    solves,          \* every minimize call so far: seed, target, result
    returned,        \* what the finished operation handed to its caller
    diverges,        \* the problems on which the solver does not converge
    isRunning,       \* main.py's loop flag
    prompts,         \* "Create new graph?" prompts answered so far
    price_rows,      \* rows of price_data
    log_rows,        \* rows of log_returns
    steps,           \* the pipeline steps executed since the loop test
    raised,          \* the exception that ended the pipeline, or "none"
    answers,         \* what was typed at each "Create new graph?" prompt, in order
    runs             \* pipeline runs completed (reports plotted) so far

inputVars == <<tickers, mean_returns, cov_matrix, returns, risk_free_rate>>
statsVars == <<weights, stats>>
samplerVars == <<risk_model, n_portfolios, it, results, weight_records, draws, df>>

solverVars == <<target_returns, taken, r, frontier_vols, result, solves, returned, diverges>>

loopLog == <<answers, runs>>
pipelineVars == <<isRunning, prompts, price_rows, log_rows, steps, raised, loopLog>>

vars == <<pc, inputVars, statsVars, samplerVars, solverVars, pipelineVars>>

pipelineIdle ==
    /\ isRunning = TRUE
    /\ prompts = 0
    /\ price_rows = 0
    /\ log_rows = 0
    /\ steps = <<>>
    /\ raised = "none"
    /\ answers = <<>>
    /\ runs = 0

solverIdle ==
    /\ target_returns = <<>>
    /\ taken = 0
    /\ r = <<>>
    /\ frontier_vols = <<>>
    /\ result = <<>>
    /\ solves = <<>>
    /\ returned = <<>>
    /\ diverges = {}

samplerIdle ==
    /\ risk_model = "sharpe"
    /\ n_portfolios = 0
    /\ it = 0
    /\ results = <<>>
    /\ weight_records = <<>>
    /\ draws = <<>>
    /\ df = <<>>

(* ------------- the statistics functions applied to inputs ------------- *)
InitStats ==
    /\ pc = "stats"
    /\ tickers \in (SUBSET Instruments) \ {{}}
    /\ weights \in SimplexGrid(tickers)
    /\ mean_returns \in MeanVectors(tickers)
    \* every covariance matrix with no return rows, or every return matrix with
    \* a scalar covariance matrix
    /\ \/ cov_matrix \in CovMatrices(tickers) /\ returns = <<>>
       \/ cov_matrix \in ScalarCovMatrices(tickers) /\ returns \in ReturnMatrices(tickers)
    /\ risk_free_rate \in RiskFreeRates
    /\ stats = <<>>
    /\ samplerIdle
    /\ solverIdle
    /\ pipelineIdle

CallSharpeStats ==
    /\ pc = "stats"
    /\ stats' = compute_portfolio_stats(weights, mean_returns, cov_matrix, risk_free_rate)
    /\ pc' = "sharpe_stats"
    /\ UNCHANGED <<inputVars, weights, samplerVars, solverVars, pipelineVars>>

CallSortinoStats ==
    /\ pc = "stats"
    /\ stats' = sortino_compute_portfolio_stats(weights, mean_returns, cov_matrix,
                                                 returns, risk_free_rate)
    /\ pc' = "sortino_stats"
    /\ UNCHANGED <<inputVars, weights, samplerVars, solverVars, pipelineVars>>

NextStats == CallSharpeStats \/ CallSortinoStats

SpecStats == InitStats /\ [][NextStats]_vars

(* --------------------- simulate_random_portfolios --------------------- *)
\* the vectors np.random.random(n_assets) can return
RandomDraws(T) == [T -> { Num(l * (Scale \div Levels)) : l \in 0..(Levels - 1) }]

\* weights /= weights.sum()
Normalise(u) ==
    LET total == FSum(u, DOMAIN u)
    IN  [i \in DOMAIN u |-> FDiv(u[i], total)]

\* the statistics of one draw, by the caller's risk model
SampleStats(w) ==
    IF risk_model = "sharpe"
    THEN compute_portfolio_stats(w, mean_returns, cov_matrix, risk_free_rate)
    ELSE sortino_compute_portfolio_stats(w, mean_returns, cov_matrix, returns, risk_free_rate)

\* a loop body that leaves out a draw of zero volatility
LoopBody_SkipDegenerate(u) ==
    LET w == Normalise(u)
        st == SampleStats(w)
    IN  /\ weights' = w
        /\ it' = it + 1
        /\ draws' = Append(draws, u)
        /\ IF st[2] = Num(0)
           THEN UNCHANGED <<results, weight_records>>
           ELSE /\ results' = Append(results, <<st[2], st[1], st[3]>>)
                /\ weight_records' = Append(weight_records, w)

\* one iteration of the loop of simulate_random_portfolios with the draw u
LoopBody(u) ==
    LET w == Normalise(u)
        st == SampleStats(w)
    IN  /\ weights' = w
        /\ it' = it + 1
        /\ draws' = Append(draws, u)
        /\ results' = Append(results, <<st[2], st[1], st[3]>>)
        /\ weight_records' = Append(weight_records, w)

\* return matrices of at most one row
ShortReturnMatrices(T) == { m \in ReturnMatrices(T) : Len(m) <= 1 }

InitSampler ==
    /\ pc = "simulate"
    /\ tickers \in (SUBSET Instruments) \ {{}}
    /\ mean_returns \in MeanVectors(tickers)
    /\ cov_matrix \in ScalarCovMatrices(tickers) \cap PsdCovMatrices(tickers)
    \* main.py's sampler takes no return matrix, sortino.py's does
    /\ \/ risk_model = "sharpe" /\ returns = <<>>
       \/ risk_model = "sortino" /\ returns \in ShortReturnMatrices(tickers)
    /\ risk_free_rate = Frac(1)
    /\ weights = <<>>
    /\ stats = <<>>
    /\ n_portfolios \in 0..MaxPortfolios
    /\ it = 0
    /\ results = <<>>
    /\ weight_records = <<>>
    /\ draws = <<>>
    /\ df = <<>>
    /\ solverIdle
    /\ pipelineIdle

SimulateStep ==
    /\ pc = "simulate"
    /\ it < n_portfolios
    /\ \E u \in RandomDraws(tickers) : LoopBody(u)
    /\ UNCHANGED <<pc, inputVars, stats, risk_model, n_portfolios, df, solverVars, pipelineVars>>

\* pd.DataFrame(results, columns=[...]); df["weights"] = weight_records; return df
SimulateReturn ==
    /\ pc = "simulate"
    /\ it >= n_portfolios
    /\ df' = [k \in 1..Len(results) |->
                [volatility |-> results[k][1], return |-> results[k][2],
                 ratio |-> results[k][3], weights |-> weight_records[k]]]
    /\ pc' = "simulated"
    /\ UNCHANGED <<inputVars, statsVars, risk_model, n_portfolios, it, results,
                   weight_records, draws, solverVars, pipelineVars>>

NextSampler == SimulateStep \/ SimulateReturn

SpecSampler == InitSampler /\ [][NextSampler]_vars

(* ------------------------ scipy.optimize.minimize --------------------- *)
(* The solver is a library. It is taken by its contract: it is             *)
(* deterministic; when it reports success its x meets the bounds and the   *)
(* equality constraints and no feasible point has a smaller objective;     *)
(* when no point is feasible, or the problem is one of those it does not   *)
(* converge on (diverges), it reports failure and hands back the iterate   *)
(* it stopped at, taken here to be the seed.                               *)

\* t/Grid^2 as a float
Target(t) == Num(t * (Scale \div (Grid * Grid)))

TargetSeqs ==
    UNION { [1..n -> { Target(t) : t \in TargetVals }] : n \in 0..MaxTargets }

\* n*[1./n]
UniformSeed(T) == [i \in T |-> FDiv(Num(Scale), Num(Cardinality(T) * Scale))]

\* the objective functions handed to minimize
Objective(kind, w) ==
    CASE kind = "variance" -> QuadForm(w, cov_matrix)
      [] kind = "neg_sharpe" ->
            FNeg(compute_portfolio_stats(w, mean_returns, cov_matrix, risk_free_rate)[3])
      [] kind = "neg_sortino" ->
            FNeg(sortino_compute_portfolio_stats(w, mean_returns, cov_matrix,
                                                 returns, risk_free_rate)[3])

\* bounds (0, 1) per weight, sum(w) - 1 = 0 and, with a target, dot(w, mean) - r = 0
Feasible(target) ==
    { w \in SimplexGrid(tickers) : target = <<>> \/ Dot(w, mean_returns) = target[1] }

minimize(kind, x0, target) ==
    LET F == Feasible(target)
        best == CHOOSE w \in F :
                    \A v \in F : ~FLt(Objective(kind, v), Objective(kind, w))
    IN  IF F # {} /\ [kind |-> kind, x0 |-> x0, target |-> target] \notin diverges
        THEN [x |-> best, fun |-> Objective(kind, best), success |-> TRUE]
        ELSE [x |-> x0, fun |-> Objective(kind, x0), success |-> FALSE]

\* the problems the solver can be given
Problems(T) ==
    LET seeds == SimplexGrid(T) \cup {UniformSeed(T)}
    IN  [kind : {"variance"}, x0 : seeds, target : { <<Target(t)>> : t \in TargetVals }]
        \cup [kind : {"variance", "neg_sharpe", "neg_sortino"}, x0 : seeds, target : {<<>>}]

(* ------------------------- constrained solves ------------------------- *)
InitSolver ==
    /\ pc = "ready"
    /\ tickers \in (SUBSET Instruments) \ {{}}
    /\ mean_returns \in MeanVectors(tickers)
    /\ cov_matrix \in PsdCovMatrices(tickers)
    /\ risk_free_rate = Frac(1)
    \* every target sequence with no return rows, or every one-row return matrix
    \* with no targets
    /\ \/ target_returns \in TargetSeqs /\ returns = <<>>
       \/ target_returns = <<>> /\ returns \in ShortReturnMatrices(tickers) \ {<<>>}
    /\ diverges \in {{}} \cup { {p} : p \in Problems(tickers) }
    /\ weights = <<>>
    /\ stats = <<>>
    /\ samplerIdle
    /\ taken = 0
    /\ r = <<>>
    /\ frontier_vols = <<>>
    /\ result = <<>>
    /\ solves = <<>>
    /\ returned = <<>>
    /\ pipelineIdle

\* one call of minimize, logged
Solve(kind, x0, target) ==
    /\ result' = minimize(kind, x0, target)
    /\ solves' = Append(solves, [x0 |-> x0, target |-> target, res |-> result'])

\* main.py min_variance: return result.x
MinVariance ==
    /\ pc = "ready"
    /\ Solve("variance", UniformSeed(tickers), <<>>)
    /\ returned' = result'.x
    /\ pc' = "min_variance_done"
    /\ UNCHANGED <<inputVars, statsVars, samplerVars, target_returns, taken, r,
                   frontier_vols, diverges, pipelineVars>>

\* main.py max_sharpe_portfolio: return result
MaxSharpePortfolio ==
    /\ pc = "ready"
    /\ Solve("neg_sharpe", UniformSeed(tickers), <<>>)
    /\ returned' = result'
    /\ pc' = "max_sharpe_done"
    /\ UNCHANGED <<inputVars, statsVars, samplerVars, target_returns, taken, r,
                   frontier_vols, diverges, pipelineVars>>

\* sortino.py max_sortino_portfolio: return minimize(...)
MaxSortinoPortfolio ==
    /\ pc = "ready"
    /\ Solve("neg_sortino", UniformSeed(tickers), <<>>)
    /\ returned' = result'
    /\ pc' = "max_sortino_done"
    /\ UNCHANGED <<inputVars, statsVars, samplerVars, target_returns, taken, r,
                   frontier_vols, diverges, pipelineVars>>

\* main.py efficient_frontier, up to its loop
EfficientFrontierBegin ==
    /\ pc = "ready"
    /\ frontier_vols' = <<>>
    /\ taken' = 0
    /\ pc' = "frontier"
    /\ UNCHANGED <<inputVars, statsVars, samplerVars, target_returns, r, result,
                   solves, returned, diverges, pipelineVars>>

\* a loop body that seeds each solve with the previous solve's x
FrontierLoopBody_WarmStart ==
    /\ r' = target_returns[taken + 1]
    /\ Solve("variance",
             IF solves = <<>> THEN UniformSeed(tickers) ELSE solves[Len(solves)].res.x,
             <<r'>>)
    /\ frontier_vols' = Append(frontier_vols,
                               IF result'.success THEN FSqrt(result'.fun) ELSE NaN)

\* a loop body that records nothing for a solve that did not converge
FrontierLoopBody_DropFailed ==
    /\ r' = target_returns[taken + 1]
    /\ Solve("variance", UniformSeed(tickers), <<r'>>)
    /\ frontier_vols' = IF result'.success
                        THEN Append(frontier_vols, FSqrt(result'.fun))
                        ELSE frontier_vols

\* a loop body that does not look at result.success
FrontierLoopBody_IgnoreFlag ==
    /\ r' = target_returns[taken + 1]
    /\ Solve("variance", UniformSeed(tickers), <<r'>>)
    /\ frontier_vols' = Append(frontier_vols, FSqrt(result'.fun))

\* the body of the loop of efficient_frontier for the next target
FrontierLoopBody ==
    /\ r' = target_returns[taken + 1]
    /\ Solve("variance", UniformSeed(tickers), <<r'>>)
    /\ frontier_vols' = Append(frontier_vols,
                               IF result'.success THEN FSqrt(result'.fun) ELSE NaN)

EfficientFrontierStep ==
    /\ pc = "frontier"
    /\ taken < Len(target_returns)
    /\ FrontierLoopBody
    /\ taken' = taken + 1
    /\ UNCHANGED <<pc, inputVars, statsVars, samplerVars, target_returns, returned, diverges,
                   pipelineVars>>

\* return frontier_vols
EfficientFrontierReturn ==
    /\ pc = "frontier"
    /\ taken >= Len(target_returns)
    /\ returned' = frontier_vols
    /\ pc' = "frontier_done"
    /\ UNCHANGED <<inputVars, statsVars, samplerVars, target_returns, taken, r,
                   frontier_vols, result, solves, diverges, pipelineVars>>

NextSolver ==
    \/ MinVariance
    \/ MaxSharpePortfolio
    \/ MaxSortinoPortfolio
    \/ EfficientFrontierBegin
    \/ EfficientFrontierStep
    \/ EfficientFrontierReturn

SpecSolver == InitSolver /\ [][NextSolver]_vars

(* --------------------- the __main__ pipelines -------------------------- *)
\* what the user can type at a prompt
Answers == {"n", "N", " n", "y", "Y", ""}

\* input().lower().replace(' ', '') on those answers
LowerNoSpaces(a) ==
    CASE a \in {"n", "N", " n"} -> "n"
      [] a \in {"y", "Y"} -> "y"
      [] OTHER -> ""

\* a vector / matrix of NaN: the mean of no rows, the covariance of fewer than two
NaNVector(T) == [i \in T |-> NaN]
NaNMatrix(T) == [i \in T |-> [j \in T |-> NaN]]

InitPipeline ==
    /\ risk_model \in {"sharpe", "sortino"}
    /\ pc = IF risk_model = "sharpe" THEN "while" ELSE "ticker_prompt"
    /\ isRunning = TRUE
    /\ prompts = 0
    /\ tickers = Instruments
    /\ price_rows = 0
    /\ log_rows = 0
    /\ steps = <<>>
    /\ raised = "none"
    /\ answers = <<>>
    /\ runs = 0
    /\ mean_returns = <<>>
    /\ cov_matrix = <<>>
    /\ returns = <<>>
    /\ risk_free_rate = Frac(0)
    /\ weights = <<>>
    /\ stats = <<>>
    /\ n_portfolios = 0
    /\ it = 0
    /\ results = <<>>
    /\ weight_records = <<>>
    /\ draws = <<>>
    /\ df = <<>>
    /\ solverIdle

pipelineData == <<mean_returns, cov_matrix, returns, risk_free_rate, statsVars,
                  n_portfolios, it, results, weight_records, draws, df, solverVars>>

\* main.py: while isRunning
WhileTest ==
    /\ pc = "while"
    /\ pc' = IF isRunning THEN "create_prompt" ELSE "exit"
    /\ steps' = <<>>
    /\ UNCHANGED <<risk_model, isRunning, prompts, tickers, price_rows, log_rows,
                   raised, loopLog, pipelineData>>

\* a loop that leaves at once on 'n', as a break after isRunning = False would
CreatePrompt_ExitOnN ==
    /\ pc = "create_prompt"
    /\ prompts < MaxPrompts
    /\ \E choice \in Answers :
          /\ isRunning' = IF LowerNoSpaces(choice) = "n" THEN FALSE ELSE isRunning
          /\ answers' = Append(answers, choice)
          /\ pc' = IF LowerNoSpaces(choice) = "n" THEN "exit" ELSE "ticker_prompt"
    /\ prompts' = prompts + 1
    /\ UNCHANGED <<risk_model, tickers, price_rows, log_rows, steps, raised, runs,
                   pipelineData>>

\* main.py: "Create new graph? (Y/n)"
CreatePrompt ==
    /\ pc = "create_prompt"
    /\ prompts < MaxPrompts
    /\ \E choice \in Answers :
          /\ isRunning' = IF LowerNoSpaces(choice) = "n" THEN FALSE ELSE isRunning
          /\ answers' = Append(answers, choice)
    /\ prompts' = prompts + 1
    /\ pc' = "ticker_prompt"
    /\ UNCHANGED <<risk_model, tickers, price_rows, log_rows, steps, raised, runs,
                   pipelineData>>

\* main.py: custom tickers on 'y'; sortino.py: custom tickers on a non-empty line
TickerPrompt ==
    /\ pc = "ticker_prompt"
    /\ \/ \E custom \in (SUBSET Instruments) \ {{}} : tickers' = custom
       \/ UNCHANGED tickers
    /\ pc' = "fetch"
    /\ steps' = Append(steps, "tickers")
    /\ UNCHANGED <<risk_model, isRunning, prompts, price_rows, log_rows, raised, loopLog, pipelineData>>

\* fetch_yahoo_data: the rows left by data.dropna()
FetchPriceData ==
    /\ pc = "fetch"
    /\ \E n \in 0..MaxRows : price_rows' = n
    /\ pc' = "log_returns"
    /\ steps' = Append(steps, "fetch")
    /\ UNCHANGED <<risk_model, isRunning, prompts, tickers, log_rows, raised, loopLog, pipelineData>>

\* log_returns = np.log(price_data / price_data.shift(1)).dropna()
LogReturns ==
    /\ pc = "log_returns"
    /\ log_rows' = IF price_rows > 0 THEN price_rows - 1 ELSE 0
    /\ pc' = "moments"
    /\ steps' = Append(steps, "log_returns")
    /\ UNCHANGED <<risk_model, isRunning, prompts, tickers, price_rows, raised, loopLog, pipelineData>>

\* mean_returns = log_returns.mean() * 252; cov_matrix = log_returns.cov() * 252
Moments ==
    /\ pc = "moments"
    /\ IF log_rows = 0
       THEN mean_returns' = NaNVector(tickers)
       ELSE mean_returns' \in MeanVectors(tickers)
    /\ IF log_rows < 2
       THEN cov_matrix' = NaNMatrix(tickers)
       ELSE cov_matrix' \in PsdCovMatrices(tickers)
    /\ pc' = "simulate"
    /\ steps' = Append(steps, "moments")
    /\ UNCHANGED <<risk_model, isRunning, prompts, tickers, price_rows, log_rows, raised,
                   loopLog, returns, risk_free_rate, statsVars, n_portfolios, it, results,
                   weight_records, draws, df, solverVars>>

\* results_df = simulate_random_portfolios(5000, ...)
PipelineSimulate ==
    /\ pc = "simulate"
    /\ pc' = "optimise"
    /\ steps' = Append(steps, "simulate")
    /\ UNCHANGED <<risk_model, isRunning, prompts, tickers, price_rows, log_rows, raised,
                   loopLog, pipelineData>>

\* max_sharpe_portfolio(...) / max_sortino_portfolio(...) and the best portfolio's stats
PipelineOptimise ==
    /\ pc = "optimise"
    /\ pc' = IF risk_model = "sharpe" THEN "frontier" ELSE "report"
    /\ steps' = Append(steps, "optimise")
    /\ UNCHANGED <<risk_model, isRunning, prompts, tickers, price_rows, log_rows, raised,
                   loopLog, pipelineData>>

\* main.py: frontier_returns = np.linspace(...); efficient_frontier(...)
PipelineFrontier ==
    /\ pc = "frontier"
    /\ pc' = "report"
    /\ steps' = Append(steps, "frontier")
    /\ UNCHANGED <<risk_model, isRunning, prompts, tickers, price_rows, log_rows, raised,
                   loopLog, pipelineData>>

\* the printed report and plot_results; main.py then goes back to the loop test
Report ==
    /\ pc = "report"
    /\ pc' = IF risk_model = "sharpe" THEN "while" ELSE "exit"
    /\ steps' = Append(steps, "report")
    /\ runs' = runs + 1
    /\ UNCHANGED <<risk_model, isRunning, prompts, tickers, price_rows, log_rows, raised,
                   answers, pipelineData>>

NextPipeline ==
    \/ WhileTest
    \/ CreatePrompt
    \/ TickerPrompt
    \/ FetchPriceData
    \/ LogReturns
    \/ Moments
    \/ PipelineSimulate
    \/ PipelineOptimise
    \/ PipelineFrontier
    \/ Report

SpecPipeline == InitPipeline /\ [][NextPipeline]_vars

\* main.py run as a program: the loop of lines 12-188 alone
InitMain == InitPipeline /\ risk_model = "sharpe"

\* every prompt is answered (while the prompt budget lasts) and every stage returns
SpecMain == InitMain /\ [][NextPipeline]_vars /\ WF_vars(NextPipeline)

(* C2: simulate_random_portfolios returns exactly n_portfolios records in  *)
(* draw order, record k holding the weight vector and the statistics of    *)
(* the k-th draw; no draw is retried, skipped or filtered.                 *)
C2_ExactlyNRecords ==
    pc = "simulated" =>
        /\ Len(df) = n_portfolios
        /\ Len(draws) = n_portfolios
        /\ \A k \in 1..Len(df) :
              /\ df[k].weights = Normalise(draws[k])
              /\ <<df[k].return, df[k].volatility, df[k].ratio>>
                    = SampleStats(Normalise(draws[k]))

\* a full table that holds a degenerate (zero-volatility) record
C2_Witness ==
    /\ pc = "simulated"
    /\ n_portfolios >= 2
    /\ Len(df) = n_portfolios
    /\ \E k \in 1..Len(df) : df[k].volatility = Num(0)

\* a weight vector of the simplex, up to one unit of rounding per component
OnSimplex(w) ==
    /\ \A i \in DOMAIN w : IsNum(w[i]) /\ 0 <= w[i].v /\ w[i].v <= Scale
    /\ LET total == FSum(w, DOMAIN w)
       IN  IsNum(total) /\ total.v >= Scale - Cardinality(DOMAIN w) /\ total.v <= Scale

(* C5: every weight vector recorded by the sampler has every component in  *)
(* [0, 1], no NaN component, and components that sum to 1, for every draw  *)
(* (the all-zero draw and the one-instrument case included).               *)
C5_WeightsOnSimplex ==
    \A k \in 1..Len(weight_records) : OnSimplex(weight_records[k])

(* C3: whenever the volatility returned by main.py's compute_portfolio_stats *)
(* is exactly 0, the Sharpe ratio it returns is 0 (neither NaN nor         *)
(* infinite).                                                              *)
C3_SharpeZeroAtZeroVol ==
    (pc = "sharpe_stats" /\ stats[2] = Num(0)) => stats[3] = Num(0)

(* C7: the volatility returned by compute_portfolio_stats (main.py and     *)
(* sortino.py) is a number >= 0 and never NaN, a negative radicand being   *)
(* clamped to 0.                                                           *)
C7_VolatilityNonNegative ==
    pc \in {"sharpe_stats", "sortino_stats"} => (IsNum(stats[2]) /\ stats[2].v >= 0)

\* the periods whose portfolio return is negative, and those returns
NegPeriods == { t \in DOMAIN returns : Dot(returns[t], weights).v < 0 }
NegReturn(t) == Dot(returns[t], weights)

(* C4: the Sortino ratio returned by sortino.py's compute_portfolio_stats  *)
(* is exactly 0 when no period has a negative portfolio return or when the *)
(* negative-period returns have population standard deviation 0 (they are  *)
(* all equal); otherwise it is the finite or infinite quotient             *)
(* (portfolio return - rf) / (population std x sqrt(252)), and never NaN   *)
(* in the zero cases.                                                      *)
C4_SortinoPolicy ==
    pc = "sortino_stats" =>
        IF NegPeriods = {} \/ \A s, t \in NegPeriods : NegReturn(s) = NegReturn(t)
        THEN stats[3] = Num(0)
        ELSE stats[3] =
                FDiv(FSub(Dot(weights, mean_returns), risk_free_rate),
                     FMul(np_std([t \in DOMAIN returns |-> NegReturn(t)], NegPeriods),
                          FSqrt(Num(TradingDays * Scale))))

\* no negative period, a non-zero excess return, and the ratio is 0
C4_Witness ==
    /\ pc = "sortino_stats"
    /\ returns # <<>>
    /\ NegPeriods = {}
    /\ Dot(weights, mean_returns) # risk_free_rate
    /\ stats[3] = Num(0)

\* two different negative periods: the ratio is the quotient
C4_WitnessQuotient ==
    /\ pc = "sortino_stats"
    /\ \E s, t \in NegPeriods : NegReturn(s) # NegReturn(t)
    /\ IsNum(stats[3]) /\ stats[3].v < 0

(* C1: efficient_frontier returns one entry per input target, in the order *)
(* of the targets: entry j is sqrt(fun) of the solve for target j when     *)
(* that solve reports success and NaN when it does not; a solve that does  *)
(* not converge neither shortens nor reorders the output.                  *)
C1_OneEntryPerTarget ==
    /\ pc = "frontier" => (Len(frontier_vols) = taken /\ Len(solves) = taken)
    /\ pc = "frontier_done" =>
        /\ Len(returned) = Len(target_returns)
        /\ Len(solves) = Len(target_returns)
        /\ \A j \in 1..Len(returned) :
              /\ solves[j].target = <<target_returns[j]>>
              /\ returned[j] = IF solves[j].res.success
                               THEN FSqrt(solves[j].res.fun)
                               ELSE NaN

\* a solve that did not converge, followed by one that did
C1_Witness ==
    /\ pc = "frontier_done"
    /\ Len(returned) = 2
    /\ ~solves[1].res.success /\ IsNaN(returned[1])
    /\ solves[2].res.success /\ IsNum(returned[2])

(* C6: every constrained-solve operation hands its caller the solver's     *)
(* convergence flag, the objective value and the weight vector of each     *)
(* solve it made, converged or not.                                        *)
C6_SolveResultExposed ==
    /\ pc \in {"min_variance_done", "max_sharpe_done", "max_sortino_done"} =>
          {"success", "fun", "x"} \subseteq DOMAIN returned
    /\ pc = "frontier_done" =>
          \A j \in 1..Len(returned) : {"success", "fun", "x"} \subseteq DOMAIN returned[j]

\* the smallest and the largest single-instrument mean return
MinMean == CHOOSE m \in { mean_returns[i] : i \in tickers } :
               \A i \in tickers : ~FLt(mean_returns[i], m)
MaxMean == CHOOSE m \in { mean_returns[i] : i \in tickers } :
               \A i \in tickers : ~FGt(mean_returns[i], m)

\* the expected returns of the minimum-variance portfolios
MinVarReturns ==
    { Dot(w, mean_returns) :
        w \in { u \in SimplexGrid(tickers) :
                  \A v \in SimplexGrid(tickers) :
                      ~FLt(QuadForm(v, cov_matrix), QuadForm(u, cov_matrix)) } }

ValidVol(x) == IsNum(x) /\ x.v >= 0

FrontierEntry(t) ==
    LET res == minimize("variance", UniformSeed(tickers), <<t>>)
    IN  IF res.success THEN FSqrt(res.fun) ELSE NaN

(* C10: each solve of efficient_frontier starts from the uniform portfolio *)
(* and constrains the return to its own target, so the entry for a target  *)
(* is what a solve of that target alone gives, whatever its position and   *)
(* the targets around it, and equal targets get equal entries.             *)
C10_IndependentSolves ==
    pc \in {"frontier", "frontier_done"} =>
        /\ \A j \in 1..Len(solves) :
              /\ solves[j].x0 = UniformSeed(tickers)
              /\ solves[j].target = <<target_returns[j]>>
              /\ frontier_vols[j] = FrontierEntry(target_returns[j])
        /\ \A i, j \in 1..Len(frontier_vols) :
              target_returns[i] = target_returns[j] => frontier_vols[i] = frontier_vols[j]

\* two different targets, the first solved away from the uniform portfolio
C10_Witness ==
    /\ pc = "frontier_done"
    /\ Len(returned) = 2
    /\ target_returns[1] # target_returns[2]
    /\ solves[1].res.success /\ solves[1].res.x # UniformSeed(tickers)
    /\ solves[2].res.success
    /\ returned[1] # returned[2]

(* C9: when fewer than 2 aligned price rows remain, computing the return   *)
(* series fails with InsufficientDataError and no mean vector, covariance  *)
(* matrix, sampling or optimisation step is executed afterwards.           *)
C9_InsufficientData ==
    (price_rows < 2 /\ \E j \in 1..Len(steps) : steps[j] = "log_returns") =>
        /\ raised = "InsufficientDataError"
        /\ \A j \in 1..Len(steps) :
              steps[j] \notin {"moments", "simulate", "optimise", "frontier"}

\* the stages of one iteration of main.py's loop, in program order
FullRun ==
    <<"tickers", "fetch", "log_returns", "moments", "simulate", "optimise", "frontier",
      "report">>

InIteration ==
    pc \in {"ticker_prompt", "fetch", "log_returns", "moments", "simulate", "optimise",
            "frontier", "report"}

SaysNo(a) == LowerNoSpaces(a) = "n"

C11_LoopState ==
    /\ Len(answers) = prompts
    \* one run per prompt: the iteration under way is the only one not yet complete
    /\ runs = IF InIteration THEN prompts - 1 ELSE prompts
    /\ InIteration => steps = SubSeq(FullRun, 1, Len(steps))
    \* back at the loop test the whole iteration has run, after an 'n' as well
    /\ (pc = "while" /\ prompts > 0) => steps = FullRun
    \* 'n' in any case and spacing, and nothing else, clears isRunning
    /\ isRunning <=> \A j \in 1..Len(answers) : ~SaysNo(answers[j])
    \* no prompt follows an 'n'
    /\ \A j \in 1..(Len(answers) - 1) : ~SaysNo(answers[j])
    \* the program ends only after an 'n', with at least one run made
    /\ pc = "exit" => (~isRunning /\ runs >= 1 /\ SaysNo(answers[Len(answers)]))

C11_LoopStep ==
    /\ (pc = "while" /\ isRunning) => pc' = "create_prompt"
    /\ (pc = "while" /\ ~isRunning) => pc' = "exit"
    /\ pc = "create_prompt" => pc' = "ticker_prompt"
    /\ (InIteration /\ isRunning') => pc' # "exit"

(* C11: in main.py's loop the pipeline runs exactly once per "Create new   *)
(* graph?" prompt, the iteration answered 'n' included: 'n' (any case,     *)
(* spaces ignored) only clears isRunning, that iteration still runs in     *)
(* full and the loop exits after it; any other answer leads to another     *)
(* prompt. So the pipeline runs at least once in every execution, and the  *)
(* program terminates exactly when some prompt is answered 'n'.            *)
C11_OncePerPrompt ==
    /\ []C11_LoopState
    /\ [][C11_LoopStep]_vars
    /\ <>(runs >= 1)
    /\ (prompts > runs) ~> (runs = prompts)
    /\ (~isRunning) ~> (pc = "exit")

C11_Witness ==
    /\ pc = "exit"
    /\ prompts = 2
    /\ runs = 2
    /\ ~SaysNo(answers[1])
    /\ answers[2] = " n"

====
